---- MODULE Spec2Model ----
\* Verification model of the composables of vue3-composition-masterclass.
\* Part 1: useDebounce (src/src/composables/useFetch.ts, lines 29-39), run on
\* the host's single-threaded event loop: a task (user code writing the source
\* ref, a timer callback, the teardown of the owning scope) runs to completion,
\* the watcher job queued by a write runs in the microtask flush that follows
\* the task, and only then does time pass or the next timer fire.
EXTENDS Integers, FiniteSets, Sequences, TLC

\* ---------------------------------------------------------------- bounds
\* the values a source ref takes (the strings of the spec's scenario)
Vals == {"a", "ab", "abc"}
\* largest debounce delay, in clock units; 0 is a legal delay
MaxDelay == 2
\* last instant at which the environment still writes the source
MaxTime == 3
\* number of timers one run may schedule (caps the handle counter)
MaxTimers == 3
\* number of teardown calls one run may make
MaxDispose == 2

\* the value of `debounced` before useDebounce has run
Undef == "undefined"

VARIABLES
    phase,        \* "new": useDebounce not called yet; "live": watcher active; "disposed": watcher stopped
    source,       \* source.value
    delay,        \* the delay argument
    debounced,    \* debounced.value
    timer,        \* the closure variable `timer`: last handle returned by setTimeout, 0 = never assigned
    timers,       \* the host's scheduled, not yet fired or cancelled timeouts: [id, val, due]
    nextHandle,   \* the host's timer handle counter
    watchOld,     \* the watcher's oldValue (the value it last observed)
    jobQueued,    \* the watcher job is in the scheduler's pre-flush queue
    now,          \* the clock
    quiet,        \* the environment has stopped writing the source and will not tear down
    lastOp,       \* history: the step taken last
    held,         \* history: the values source has held since construction
    lastObs,      \* history: the instant of the last change notification (watch callback run), -1 = none
    burstMut,     \* history: writes of debounced since the current burst's first notification
    burstInit,    \* history: debounced.value when the current burst began
    burstLen,     \* history: number of notifications in the current burst
    disposeCalls  \* history: number of teardown calls

vars == <<phase, source, delay, debounced, timer, timers, nextHandle, watchOld,
          jobQueued, now, quiet, lastOp, held, lastObs, burstMut, burstInit,
          burstLen, disposeCalls>>

hist == <<held, lastObs, burstMut, burstInit, burstLen, disposeCalls>>

\* whether the object passed as `source` is a ref the watcher can subscribe to
\* (TRUE), or an inert one: watch() cannot track it and never runs the callback
VARIABLE srcLive

\* the state of useDebounce
dbVars == <<vars, srcLive>>

\* ---------------------------------------------------------------- state of the other parts
\* Each part of the repository is checked under a specification of its own,
\* which leaves the state of the other parts as it is initially.

\* ToastPlugin (src/src/plugins/toast.ts) and useToast (src/src/composables/useToast.ts)
VARIABLES
    tInstalled,   \* app.use(ToastPlugin) has run: the ToastAPI is provided under ToastKey
    tMessages,    \* messages.value: the ids of the messages, in list order
    tNextId,      \* nextId
    tTimers,      \* the host's scheduled timeouts of show(): [id, due]
    tNow,         \* the clock, in seconds
    tResult,      \* what the last useToast() call did: returned the API, or threw
    tLastOp,      \* history: the step taken last
    tThrew        \* history: some useToast() call has thrown

toastVars == <<tInstalled, tMessages, tNextId, tTimers, tNow, tResult, tLastOp, tThrew>>

ToastInit ==
    /\ tInstalled = FALSE
    /\ tMessages = <<>>
    /\ tNextId = 0
    /\ tTimers = {}
    /\ tNow = 0
    /\ tResult = "none"
    /\ tLastOp = "init"
    /\ tThrew = FALSE

\* two useDebounce pipelines, A and B, over two different source refs
VARIABLES
    pSource,      \* [pipeline -> its source.value]
    pDelay,       \* [pipeline -> its delay argument]
    pDebounced,   \* [pipeline -> its debounced.value]
    pTimer,       \* [pipeline -> its closure variable `timer`], 0 = never assigned
    pWatchOld,    \* [pipeline -> its watcher's oldValue]
    pJob,         \* [pipeline -> its watcher job is queued]
    pTimers,      \* the host's scheduled timeouts of both: [id, owner, val, due]
    pNextHandle,  \* the host's timer handle counter
    pNow,         \* the clock
    pLastOp       \* history: the step taken last, [op, who]

pairVars == <<pSource, pDelay, pDebounced, pTimer, pWatchOld, pJob, pTimers,
              pNextHandle, pNow, pLastOp>>

Pipelines == {"A", "B"}

\* the values each source takes: disjoint, so that a value is known by its source
PairVals == [A |-> {"a", "ab"}, B |-> {"b", "bc"}]

PairIdle ==
    /\ pSource = [A |-> "a", B |-> "b"]
    /\ pDelay = [A |-> 0, B |-> 0]
    /\ pDebounced = [A |-> "a", B |-> "b"]
    /\ pTimer = [A |-> 0, B |-> 0]
    /\ pWatchOld = [A |-> "a", B |-> "b"]
    /\ pJob = [A |-> FALSE, B |-> FALSE]
    /\ pTimers = {}
    /\ pNextHandle = 0
    /\ pNow = 0
    /\ pLastOp = [op |-> "init", who |-> "A"]

\* useLocalStorage(key, initialValue) and the storage entry under its key
VARIABLES
    sStore,    \* localStorage under the key: [has, text], text a sequence of characters
    sInitial,  \* the initialValue argument of the current call
    sData,     \* data.value
    sJob,      \* the watcher job of `data` is queued
    sSaved,    \* history: the value the watcher persisted last, NoValue after removeItem
    sLastOp    \* history: the step taken last

storageVars == <<sStore, sInitial, sData, sJob, sSaved, sLastOp>>

\* JavaScript values: [k, n, s] with k the type, n the number or truth value,
\* s the characters of a string
Num(n) == [k |-> "number", n |-> n, s |-> <<>>]
Str(cs) == [k |-> "string", n |-> 0, s |-> cs]
Bool(b) == [k |-> "boolean", n |-> IF b THEN 1 ELSE 0, s |-> <<>>]
Null == [k |-> "null", n |-> 0, s |-> <<>>]
NoValue == [k |-> "none", n |-> 0, s |-> <<>>]
SyntaxError == [k |-> "SyntaxError", n |-> 0, s |-> <<>>]

\* getItem of a key never written
Absent == [has |-> FALSE, text |-> <<>>]

StorageIdle ==
    /\ sStore = Absent
    /\ sInitial = Num(0)
    /\ sData = Num(0)
    /\ sJob = FALSE
    /\ sSaved = NoValue
    /\ sLastOp = "init"

\* useFetch(url)
VARIABLES
    fData,      \* data.value: "null" or a parsed body
    fLoading,   \* loading.value
    fError,     \* error.value: "null" or the message of the Error
    fInflight,  \* the refresh() calls suspended at an await: [id, pc]
    fNextId,    \* number of refresh() calls made so far
    fLastBody,  \* history: the body of the last successful refresh, "null" if none
    fLastOp     \* history: the step taken last, [op, id]

fetchVars == <<fData, fLoading, fError, fInflight, fNextId, fLastBody, fLastOp>>

FetchIdle ==
    /\ fData = "null"
    /\ fLoading = FALSE
    /\ fError = "null"
    /\ fInflight = {}
    /\ fNextId = 0
    /\ fLastBody = "null"
    /\ fLastOp = [op |-> "init", id |-> 0]

\* useEventListener(target, event, handler) in a component
VARIABLES
    lPhase,       \* the owning component: "setup", "mounted", "unmounted"
    lEl,          \* el: "target", or "null" when the selector matched nothing
    lEvent,       \* the event argument
    lListeners,   \* the listener list of the target: [type, handler]
    lDispatched,  \* number of events dispatched on the target
    lCalls,       \* number of times the handler ran
    lLastKey,     \* what the handler recorded last, "none" before its first run
    lLastOp       \* history: the step taken last, [op, type]

listenerVars == <<lPhase, lEl, lEvent, lListeners, lDispatched, lCalls, lLastKey,
                  lLastOp>>

ListenerIdle ==
    /\ lPhase = "setup"
    /\ lEl = "target"
    /\ lEvent = "keydown"
    /\ lListeners = {}
    /\ lDispatched = 0
    /\ lCalls = 0
    /\ lLastKey = "none"
    /\ lLastOp = [op |-> "init", type |-> "keydown"]

\* WatchDemo.vue: the watcher of searchQuery that uses onWatcherCleanup
VARIABLES
    wQuery,       \* searchQuery.value
    wWatchOld,    \* the watcher's oldValue
    wJob,         \* the watcher job is queued
    wStopped,     \* the watcher has been stopped (the component is unmounted)
    wTimers,      \* the host's scheduled timeouts of the callback: [id, val, due]
    wCleanup,     \* the timer the registered cleanup clears, 0 = no cleanup registered
    wNextHandle,  \* the host's timer handle counter
    wNow,         \* the clock, in units of 250 ms
    wLog,         \* the queries logged as "debounced search executed for"
    wSince,       \* history: the instant searchQuery was written last
    wLogged,      \* history: number of lines logged since that write
    wLastOp       \* history: the step taken last

watchVars == <<wQuery, wWatchOld, wJob, wStopped, wTimers, wCleanup, wNextHandle,
               wNow, wLog, wSince, wLogged, wLastOp>>

\* the state after setup of WatchDemo.vue (lines 8 and 78-89)
WatchIdle ==
    /\ wQuery = ""
    /\ wWatchOld = ""
    /\ wJob = FALSE
    /\ wStopped = FALSE
    /\ wTimers = {}
    /\ wCleanup = 0
    /\ wNextHandle = 0
    /\ wNow = 0
    /\ wLog = <<>>
    /\ wSince = 0
    /\ wLogged = 0
    /\ wLastOp = "init"

\* LifecycleDemo.vue: the ticker of each of two instances of the component
VARIABLES
    kPhase,       \* [instance -> "setup", "mounted", "unmounted"]
    kIntervalId,  \* [instance -> its intervalId], 0 = null
    kTicker,      \* [instance -> its ticker.value]
    kIntervals,   \* the host's active intervals: [id, owner, due]
    kNextHandle,  \* the host's timer handle counter
    kNow,         \* the clock, in seconds
    kLastOp       \* history: the step taken last, [op, who]

tickerVars == <<kPhase, kIntervalId, kTicker, kIntervals, kNextHandle, kNow, kLastOp>>

Instances == {1, 2}

\* the state after setup of both instances (lines 71-72): no interval, ticker 0
TickerIdle ==
    /\ kPhase = [i \in Instances |-> "setup"]
    /\ kIntervalId = [i \in Instances |-> 0]
    /\ kTicker = [i \in Instances |-> 0]
    /\ kIntervals = {}
    /\ kNextHandle = 0
    /\ kNow = 0
    /\ kLastOp = [op |-> "init", who |-> 1]

\* everything outside useDebounce: pinned while useDebounce is checked
nonDebounce == <<toastVars, pairVars, storageVars, fetchVars, listenerVars, watchVars, tickerVars>>

\* ---------------------------------------------------------------- host timer facility
\* clearTimeout(h): a handle that is unassigned, fired or cancelled is a no-op
ClearTimeout(ts, h) == {t \in ts : t.id # h}

\* setTimeout(cb, d) called at `now`: fires no earlier than now + d
SetTimeout(ts, h, val, due) == ts \cup {[id |-> h, val |-> val, due |-> due]}

\* the host runs due timers in order of due time, then of creation
NextDue(t) ==
    /\ t \in timers
    /\ t.due <= now
    /\ \A u \in timers : u.due > t.due \/ (u.due = t.due /\ u.id >= t.id)

\* ---------------------------------------------------------------- useDebounce
\* line 30: const debounced = ref<T>(source.value)
InitialDebounced_Unset == Undef
InitialDebounced == source

\* line 35: the timeout is scheduled `delay` after the callback runs
TimerDue_NoDelay == now
TimerDue == now + delay

\* lines 34-35: clearTimeout(timer); timer = setTimeout(..., delay)
CallbackTimers_NoClear(val) == SetTimeout(timers, nextHandle + 1, val, TimerDue)
CallbackTimers_SkipSettled(val) ==
    IF val = debounced THEN timers
    ELSE SetTimeout(ClearTimeout(timers, timer), nextHandle + 1, val, TimerDue)
CallbackTimers(val) == SetTimeout(ClearTimeout(timers, timer), nextHandle + 1, val, TimerDue)

\* lines 33-36: the watch callback itself never assigns debounced
CallbackDebounced_SyncZero(val) == IF delay = 0 THEN val ELSE debounced
CallbackDebounced(val) == debounced

\* line 35: the timeout callback assigns the value captured when it was scheduled
FiredValue(t) == t.val

\* lines 33-36: neither callback assigns source.value
FiredSource_WriteBack(t) == t.val
FiredSource(t) == source

\* a notification that arrives `delay` or more after the previous one (or is
\* the first) begins a new burst
NewBurst == lastObs < 0 \/ now - lastObs >= delay

\* useDebounce(source, delay), lines 29-38
Create ==
    /\ phase = "new"
    /\ phase' = "live"
    /\ debounced' = InitialDebounced
    /\ watchOld' = source
    /\ held' = {source}
    /\ burstInit' = InitialDebounced
    /\ lastOp' = "create"
    /\ UNCHANGED <<source, delay, timer, timers, nextHandle, jobQueued, now, quiet,
                   lastObs, burstMut, burstLen, disposeCalls>>

\* user code: source.value = v. A ref notifies only when the value changes;
\* an active watcher then queues its job once (queueJob de-duplicates).
SetSource(v) ==
    /\ phase \in {"live", "disposed"}
    /\ ~quiet
    /\ now <= MaxTime
    /\ nextHandle < MaxTimers
    /\ v # source
    /\ source' = v
    /\ jobQueued' = (jobQueued \/ (phase = "live" /\ srcLive))
    /\ held' = held \cup {v}
    /\ lastOp' = "set"
    /\ UNCHANGED <<phase, delay, debounced, timer, timers, nextHandle, watchOld, now,
                   quiet, lastObs, burstMut, burstInit, burstLen, disposeCalls>>

\* the microtask flush runs the watcher job: a stopped watcher returns, an
\* active one reads the source and calls the callback (lines 33-36) when the
\* value differs from the one it observed last
Flush ==
    /\ jobQueued
    /\ jobQueued' = FALSE
    /\ IF phase = "live" /\ source # watchOld
       THEN /\ timers' = CallbackTimers(source)
            /\ timer' = nextHandle + 1
            /\ nextHandle' = nextHandle + 1
            /\ debounced' = CallbackDebounced(source)
            /\ watchOld' = source
            /\ lastObs' = now
            /\ burstMut' = IF NewBurst THEN 0 ELSE burstMut
            /\ burstInit' = IF NewBurst THEN debounced ELSE burstInit
            /\ burstLen' = IF NewBurst THEN 1 ELSE burstLen + 1
            /\ lastOp' = "notify"
       ELSE /\ lastOp' = "flush"
            /\ UNCHANGED <<timers, timer, nextHandle, debounced, watchOld, lastObs,
                           burstMut, burstInit, burstLen>>
    /\ UNCHANGED <<phase, source, delay, now, quiet, held, disposeCalls>>

\* the host runs a due timeout: () => { debounced.value = val } (line 35)
Fire(t) ==
    /\ ~jobQueued
    /\ NextDue(t)
    /\ timers' = timers \ {t}
    /\ debounced' = FiredValue(t)
    /\ source' = FiredSource(t)
    /\ burstMut' = burstMut + 1
    /\ lastOp' = "fire"
    /\ UNCHANGED <<phase, delay, timer, nextHandle, watchOld, jobQueued, now,
                   quiet, held, lastObs, burstInit, burstLen, disposeCalls>>

\* time passes between tasks; a due timer may run late, never early
Tick ==
    /\ ~jobQueued
    /\ phase # "new"
    /\ \/ now < MaxTime
       \/ \E t \in timers : t.due > now
    /\ now' = now + 1
    /\ lastOp' = "tick"
    /\ UNCHANGED <<phase, source, delay, debounced, timer, timers, nextHandle, watchOld,
                   jobQueued, quiet, hist>>

\* the owning scope stops the watcher (line 33 registers it in that scope);
\* stopping a stopped watcher does nothing. The timeout is not touched.
DisposePhase_Toggle == IF phase = "live" THEN "disposed" ELSE "live"
DisposePhase == "disposed"

Dispose ==
    /\ phase \in {"live", "disposed"}
    /\ ~quiet
    /\ disposeCalls < MaxDispose
    /\ phase' = DisposePhase
    /\ disposeCalls' = disposeCalls + 1
    /\ lastOp' = "dispose"
    /\ UNCHANGED <<source, delay, debounced, timer, timers, nextHandle, watchOld,
                   jobQueued, now, quiet, held, lastObs, burstMut, burstInit, burstLen>>

\* the environment goes quiet: no further source change, no teardown
Quiesce ==
    /\ phase = "live"
    /\ ~quiet
    /\ quiet' = TRUE
    /\ lastOp' = "quiesce"
    /\ UNCHANGED <<phase, source, delay, debounced, timer, timers, nextHandle, watchOld,
                   jobQueued, now, hist>>

DebounceInit ==
    /\ phase = "new"
    /\ source \in Vals
    /\ delay \in 0..MaxDelay
    /\ debounced = Undef
    /\ timer = 0
    /\ timers = {}
    /\ nextHandle = 0
    /\ watchOld = Undef
    /\ jobQueued = FALSE
    /\ now = 0
    /\ quiet = FALSE
    /\ lastOp = "init"
    /\ held = {}
    /\ lastObs = -1
    /\ burstMut = 0
    /\ burstInit = Undef
    /\ burstLen = 0
    /\ disposeCalls = 0

FireAny == \E t \in timers : Fire(t)

\* useDebounce not in use (while another composable is checked)
DebounceIdle ==
    /\ DebounceInit
    /\ source = "a"
    /\ delay = 0
    /\ srcLive = TRUE

\* everything outside useDebounce not in use
OutsideDebounceIdle ==
    ToastInit /\ PairIdle /\ StorageIdle /\ FetchIdle /\ ListenerIdle /\ WatchIdle /\ TickerIdle

\* useDebounce over a ref
Init == DebounceInit /\ srcLive = TRUE /\ OutsideDebounceIdle

DebounceFrame == UNCHANGED <<srcLive, nonDebounce>>

Next ==
    \/ Create /\ DebounceFrame
    \/ \E v \in Vals : SetSource(v) /\ DebounceFrame
    \/ Flush /\ DebounceFrame
    \/ FireAny /\ DebounceFrame
    \/ Tick /\ DebounceFrame
    \/ Dispose /\ DebounceFrame
    \/ Quiesce /\ DebounceFrame

allVars == <<dbVars, nonDebounce>>

Spec == Init /\ [][Next]_allVars

\* the event loop drains the microtask queue after every task, the clock
\* advances, and a due timeout is eventually run
FairSpec ==
    /\ Spec
    /\ WF_allVars(Flush /\ DebounceFrame)
    /\ WF_allVars(Tick /\ DebounceFrame)
    /\ WF_allVars(FireAny /\ DebounceFrame)

\* useDebounce over an inert source: the TypeScript type Ref<T> is erased at
\* run time, lines 29-38 hold no check of `source`, and watch() (line 33) on a
\* source it cannot track never runs the callback
InertInit == DebounceInit /\ srcLive = FALSE /\ OutsideDebounceIdle

InertNext ==
    \/ Create /\ DebounceFrame
    \/ \E v \in Vals : SetSource(v) /\ DebounceFrame
    \/ Tick /\ DebounceFrame
    \/ Dispose /\ DebounceFrame

InertSpec == InertInit /\ [][InertNext]_allVars

\* ---------------------------------------------------------------- two useDebounce pipelines
\* largest delay of a pipeline of the pair
MaxPairDelay == 1
\* last instant at which a source of the pair is still written
MaxPairTime == 2
\* number of timers the pair may schedule in one run
MaxPairTimers == 3

\* everything outside the pair
nonPair == <<dbVars, toastVars, storageVars, fetchVars, listenerVars, watchVars, tickerVars>>

PairFrame == UNCHANGED nonPair

\* the state after useDebounce(sourceA, dA) and useDebounce(sourceB, dB)
\* (lines 29-38, twice): each debounced cell holds its own source's value
PairInit ==
    /\ pSource \in [Pipelines -> {"a", "ab", "b", "bc"}]
    /\ \A p \in Pipelines : pSource[p] \in PairVals[p]
    /\ pDelay \in [Pipelines -> 0..MaxPairDelay]
    /\ pDebounced = pSource
    /\ pTimer = [p \in Pipelines |-> 0]
    /\ pWatchOld = pSource
    /\ pJob = [p \in Pipelines |-> FALSE]
    /\ pTimers = {}
    /\ pNextHandle = 0
    /\ pNow = 0
    /\ pLastOp = [op |-> "init", who |-> "A"]

\* line 31: `let timer` is declared inside useDebounce, so each call has its own
TimerOwner_Shared(p) == "A"
TimerOwner(p) == p

\* user code: source.value = v on pipeline p's source
PairSet(p, v) ==
    /\ pNow <= MaxPairTime
    /\ pNextHandle < MaxPairTimers
    /\ v \in PairVals[p]
    /\ v # pSource[p]
    /\ pSource' = [pSource EXCEPT ![p] = v]
    /\ pJob' = [pJob EXCEPT ![p] = TRUE]
    /\ pLastOp' = [op |-> "set", who |-> p]
    /\ UNCHANGED <<pDelay, pDebounced, pTimer, pWatchOld, pTimers, pNextHandle, pNow>>

\* the microtask flush runs p's watcher job (lines 33-36)
PairFlush(p) ==
    /\ pJob[p]
    /\ pJob' = [pJob EXCEPT ![p] = FALSE]
    /\ IF pSource[p] # pWatchOld[p]
       THEN /\ pTimers' = ClearTimeout(pTimers, pTimer[TimerOwner(p)])
                            \cup {[id |-> pNextHandle + 1, owner |-> p,
                                   val |-> pSource[p], due |-> pNow + pDelay[p]]}
            /\ pTimer' = [pTimer EXCEPT ![TimerOwner(p)] = pNextHandle + 1]
            /\ pNextHandle' = pNextHandle + 1
            /\ pWatchOld' = [pWatchOld EXCEPT ![p] = pSource[p]]
            /\ pLastOp' = [op |-> "notify", who |-> p]
       ELSE /\ pLastOp' = [op |-> "flush", who |-> p]
            /\ UNCHANGED <<pTimers, pTimer, pNextHandle, pWatchOld>>
    /\ UNCHANGED <<pSource, pDelay, pDebounced, pNow>>

PairDue(t) ==
    /\ t \in pTimers
    /\ t.due <= pNow
    /\ \A u \in pTimers : u.due > t.due \/ (u.due = t.due /\ u.id >= t.id)

\* the host runs a due timeout: its closure assigns its own debounced cell (line 35)
PairFire(t) ==
    /\ \A p \in Pipelines : ~pJob[p]
    /\ PairDue(t)
    /\ pTimers' = pTimers \ {t}
    /\ pDebounced' = [pDebounced EXCEPT ![t.owner] = t.val]
    /\ pLastOp' = [op |-> "fire", who |-> t.owner]
    /\ UNCHANGED <<pSource, pDelay, pTimer, pWatchOld, pJob, pNextHandle, pNow>>

PairFireAny == \E t \in pTimers : PairFire(t)

PairTick ==
    /\ \A p \in Pipelines : ~pJob[p]
    /\ \/ pNow < MaxPairTime
       \/ \E t \in pTimers : t.due > pNow
    /\ pNow' = pNow + 1
    /\ pLastOp' = [op |-> "tick", who |-> pLastOp.who]
    /\ UNCHANGED <<pSource, pDelay, pDebounced, pTimer, pWatchOld, pJob, pTimers,
                   pNextHandle>>

PairSpecInit ==
    PairInit /\ DebounceIdle /\ ToastInit /\ StorageIdle /\ FetchIdle /\ ListenerIdle /\ WatchIdle /\ TickerIdle

PairNext ==
    \/ \E p \in Pipelines : \E v \in PairVals[p] : PairSet(p, v) /\ PairFrame
    \/ \E p \in Pipelines : PairFlush(p) /\ PairFrame
    \/ PairFireAny /\ PairFrame
    \/ PairTick /\ PairFrame

PairSpec == PairSpecInit /\ [][PairNext]_allVars

\* ---------------------------------------------------------------- useLocalStorage
\* largest small number stored
MaxNum == 1

nonStorage == <<dbVars, toastVars, pairVars, fetchVars, listenerVars, watchVars, tickerVars>>

StorageFrame == UNCHANGED nonStorage

Digits == <<"0", "1", "2", "3", "4", "5", "6", "7", "8", "9">>

DigitChars == {Digits[i] : i \in 1..10}

DigitVal(c) == CHOOSE d \in 0..9 : Digits[d + 1] = c

\* the numbers stored: the small ones and one of two digits
JSNums == (0..MaxNum) \cup {10 + MaxNum}

\* the strings stored: the empty one, one that reads as a number, one that reads
\* as a literal
JSStrs == {<<>>, <<"1">>, <<"n", "u", "l", "l">>}

\* the JSON-serialisable values `data` takes
JSVals == {Num(n) : n \in JSNums} \cup {Str(cs) : cs \in JSStrs}
            \cup {Null, Bool(TRUE), Bool(FALSE)}

RECURSIVE NumText(_)
NumText(n) ==
    IF n < 10 THEN <<Digits[n + 1]>>
    ELSE NumText(n \div 10) \o <<Digits[(n % 10) + 1]>>

RECURSIVE TextNum(_)
TextNum(txt) ==
    IF Len(txt) = 1 THEN DigitVal(txt[1])
    ELSE 10 * TextNum(SubSeq(txt, 1, Len(txt) - 1)) + DigitVal(txt[Len(txt)])

\* JSON.stringify(val), line 8 (the strings stored hold no character to escape)
JSONStringify_Raw(v) ==
    CASE v.k = "number" -> NumText(v.n)
      [] v.k = "string" -> v.s
      [] v.k = "boolean" -> IF v.n = 1 THEN <<"t", "r", "u", "e">>
                            ELSE <<"f", "a", "l", "s", "e">>
      [] OTHER -> <<"n", "u", "l", "l">>
JSONStringify(v) ==
    CASE v.k = "number" -> NumText(v.n)
      [] v.k = "string" -> <<"\"">> \o v.s \o <<"\"">>
      [] v.k = "boolean" -> IF v.n = 1 THEN <<"t", "r", "u", "e">>
                            ELSE <<"f", "a", "l", "s", "e">>
      [] OTHER -> <<"n", "u", "l", "l">>

\* JSON.parse(stored), line 5
JSONParse(txt) ==
    CASE txt = <<"n", "u", "l", "l">> -> Null
      [] txt = <<"t", "r", "u", "e">> -> Bool(TRUE)
      [] txt = <<"f", "a", "l", "s", "e">> -> Bool(FALSE)
      [] /\ Len(txt) >= 2
         /\ txt[1] = "\"" /\ txt[Len(txt)] = "\""
         /\ \A i \in 2..(Len(txt) - 1) : txt[i] # "\""
           -> Str(SubSeq(txt, 2, Len(txt) - 1))
      [] /\ txt # <<>>
         /\ \A i \in 1..Len(txt) : txt[i] \in DigitChars
         /\ Len(txt) > 1 => txt[1] # "0"
           -> Num(TextNum(txt))
      [] OTHER -> SyntaxError

\* line 5: stored ? JSON.parse(stored) : initialValue  (null and "" are falsy)
LoadedValue_NoParse(store, initialValue) ==
    IF store.has /\ store.text # <<>> THEN Str(store.text) ELSE initialValue
LoadedValue(store, initialValue) ==
    IF store.has /\ store.text # <<>> THEN JSONParse(store.text) ELSE initialValue

\* the state after useLocalStorage(key, initialValue), lines 3-16, on a storage
\* that has no entry under the key
StorageInit ==
    /\ sStore = Absent
    /\ sInitial \in JSVals
    /\ sData = sInitial
    /\ sJob = FALSE
    /\ sSaved = NoValue
    /\ sLastOp = "init"

\* user code: data.value = v; the ref notifies its watcher when the value changes
StorageSet(v) ==
    /\ sData' = v
    /\ sJob' = (sJob \/ v # sData)
    /\ sLastOp' = "set"
    /\ UNCHANGED <<sStore, sInitial, sSaved>>

\* the watcher job, lines 7-9; { deep: true } runs the callback whenever the job runs
StoragePersist ==
    /\ sJob
    /\ sJob' = FALSE
    /\ sStore' = [has |-> TRUE, text |-> JSONStringify(sData)]
    /\ sSaved' = sData
    /\ sLastOp' = "persist"
    /\ UNCHANGED <<sInitial, sData>>

\* remove(), lines 11-14
StorageRemove ==
    /\ sStore' = Absent
    /\ sData' = sInitial
    /\ sJob' = (sJob \/ sInitial # sData)
    /\ sSaved' = NoValue
    /\ sLastOp' = "remove"
    /\ UNCHANGED sInitial

\* the page is reloaded and useLocalStorage(key, initialValue) runs again, lines 3-9
StorageReload(initialValue) ==
    /\ ~sJob
    /\ sInitial' = initialValue
    /\ sData' = LoadedValue(sStore, initialValue)
    /\ sJob' = FALSE
    /\ sLastOp' = "reload"
    /\ UNCHANGED <<sStore, sSaved>>

StorageSpecInit ==
    StorageInit /\ DebounceIdle /\ ToastInit /\ PairIdle /\ FetchIdle /\ ListenerIdle /\ WatchIdle /\ TickerIdle

StorageNext ==
    \/ \E v \in JSVals : StorageSet(v) /\ StorageFrame
    \/ StoragePersist /\ StorageFrame
    \/ StorageRemove /\ StorageFrame
    \/ \E v \in JSVals : StorageReload(v) /\ StorageFrame

StorageSpec == StorageSpecInit /\ [][StorageNext]_allVars

\* ---------------------------------------------------------------- useFetch
\* number of refresh() calls in one run, the one of useFetch itself included
MaxRefresh == 3

nonFetch == <<dbVars, toastVars, pairVars, storageVars, listenerVars, watchVars, tickerVars>>

FetchFrame == UNCHANGED nonFetch

\* the bodies the server answers with
Bodies == {"b1", "b2"}

\* the non-ok statuses the server answers with
Statuses == {404, 500}

\* line 13: new Error(`HTTP ${res.status}`)
HttpMessage_Generic(status) == "HTTP error"
HttpMessage(status) == "HTTP " \o ToString(status)

\* fetch() rejecting: a TypeError, which line 16 keeps as it is
NetworkMessage == "TypeError: Failed to fetch"

\* res.json() rejecting on a body that is not JSON
BodyMessage == "SyntaxError: Unexpected token"

\* lines 15-19: a failed refresh writes error and loading, and data not at all
FailedData_Cleared(d) == "null"
FailedData(d) == d

\* lines 9-12: the synchronous part of refresh(), up to `await fetch(url)`
FetchStart ==
    /\ fNextId < MaxRefresh
    /\ fLoading' = TRUE
    /\ fError' = "null"
    /\ fNextId' = fNextId + 1
    /\ fInflight' = fInflight \cup {[id |-> fNextId + 1, pc |-> "fetch"]}
    /\ fLastOp' = [op |-> "start", id |-> fNextId + 1]
    /\ UNCHANGED <<fData, fLastBody>>

\* lines 15-19: catch, then finally
FetchFail(r, msg, op) ==
    /\ fError' = msg
    /\ fLoading' = FALSE
    /\ fData' = FailedData(fData)
    /\ fInflight' = fInflight \ {r}
    /\ fLastOp' = [op |-> op, id |-> r.id]
    /\ UNCHANGED <<fNextId, fLastBody>>

\* fetch() resolves with an ok response: line 14 calls res.json() and awaits it
FetchOk(r) ==
    /\ r \in fInflight /\ r.pc = "fetch"
    /\ fInflight' = (fInflight \ {r}) \cup {[id |-> r.id, pc |-> "json"]}
    /\ fLastOp' = [op |-> "response", id |-> r.id]
    /\ UNCHANGED <<fData, fLoading, fError, fNextId, fLastBody>>

\* fetch() resolves with a non-ok response: line 13 throws
FetchHttpError(r, status) ==
    /\ r \in fInflight /\ r.pc = "fetch"
    /\ FetchFail(r, HttpMessage(status), "http")

\* fetch() rejects
FetchNetworkError(r) ==
    /\ r \in fInflight /\ r.pc = "fetch"
    /\ FetchFail(r, NetworkMessage, "network")

\* res.json() resolves: line 14 assigns data, line 18 clears loading
FetchBody(r, body) ==
    /\ r \in fInflight /\ r.pc = "json"
    /\ fData' = body
    /\ fLoading' = FALSE
    /\ fInflight' = fInflight \ {r}
    /\ fLastBody' = body
    /\ fLastOp' = [op |-> "success", id |-> r.id]
    /\ UNCHANGED <<fError, fNextId>>

\* res.json() rejects
FetchBadBody(r) ==
    /\ r \in fInflight /\ r.pc = "json"
    /\ FetchFail(r, BodyMessage, "badjson")

\* the state after useFetch(url), lines 3-24: refresh() was called at line 22 and
\* is suspended at `await fetch(url)`
FetchInit ==
    /\ fData = "null"
    /\ fLoading = TRUE
    /\ fError = "null"
    /\ fInflight = {[id |-> 1, pc |-> "fetch"]}
    /\ fNextId = 1
    /\ fLastBody = "null"
    /\ fLastOp = [op |-> "start", id |-> 1]

FetchSpecInit ==
    FetchInit /\ DebounceIdle /\ ToastInit /\ PairIdle /\ StorageIdle /\ ListenerIdle /\ WatchIdle /\ TickerIdle

FetchNext ==
    \/ FetchStart /\ FetchFrame
    \/ \E r \in fInflight : FetchOk(r) /\ FetchFrame
    \/ \E r \in fInflight : \E st \in Statuses : FetchHttpError(r, st) /\ FetchFrame
    \/ \E r \in fInflight : FetchNetworkError(r) /\ FetchFrame
    \/ \E r \in fInflight : \E b \in Bodies : FetchBody(r, b) /\ FetchFrame
    \/ \E r \in fInflight : FetchBadBody(r) /\ FetchFrame

FetchSpec == FetchSpecInit /\ [][FetchNext]_allVars

\* ---------------------------------------------------------------- useEventListener
\* number of events dispatched on the target in one run
MaxEvents == 3

nonListener == <<dbVars, toastVars, pairVars, storageVars, fetchVars, watchVars, tickerVars>>

ListenerFrame == UNCHANGED nonListener

EventTypes == {"keydown", "click"}

Keys == {"a", "b"}

\* the listener useEventListener adds and removes: (event, handler)
TheListener == [type |-> lEvent, handler |-> "handler"]

\* line 10: el?.addEventListener(event, handler); nothing when el is null
MountListeners(ls) == IF lEl = "null" THEN ls ELSE ls \cup {TheListener}

\* line 11: el?.removeEventListener(event, handler)
UnmountListeners_Keep(ls) == ls
UnmountListeners(ls) == IF lEl = "null" THEN ls ELSE ls \ {TheListener}

\* the state after useEventListener(target, event, handler) in setup, lines 3-12:
\* el is resolved (line 8), the two hooks are registered, nothing is attached
ListenerInit ==
    /\ lPhase = "setup"
    /\ lEl \in {"target", "null"}
    /\ lEvent \in EventTypes
    /\ lListeners = {}
    /\ lDispatched = 0
    /\ lCalls = 0
    /\ lLastKey = "none"
    /\ lLastOp = [op |-> "init", type |-> lEvent]

\* the component is mounted: the onMounted hook runs
ListenerMount ==
    /\ lPhase = "setup"
    /\ lPhase' = "mounted"
    /\ lListeners' = MountListeners(lListeners)
    /\ lLastOp' = [op |-> "mount", type |-> lEvent]
    /\ UNCHANGED <<lEl, lEvent, lDispatched, lCalls, lLastKey>>

\* the component is unmounted: the onUnmounted hook runs
ListenerUnmount ==
    /\ lPhase = "mounted"
    /\ lPhase' = "unmounted"
    /\ lListeners' = UnmountListeners(lListeners)
    /\ lLastOp' = [op |-> "unmount", type |-> lEvent]
    /\ UNCHANGED <<lEl, lEvent, lDispatched, lCalls, lLastKey>>

\* an event of some type is dispatched on the target; the handler of
\* ComposablesDemo.vue (lines 24-26) records the key
ListenerDispatch(type, key) ==
    /\ lDispatched < MaxEvents
    /\ lDispatched' = lDispatched + 1
    /\ IF [type |-> type, handler |-> "handler"] \in lListeners
       THEN /\ lCalls' = lCalls + 1
            /\ lLastKey' = key
            /\ lLastOp' = [op |-> "handled", type |-> type]
       ELSE /\ lLastOp' = [op |-> "ignored", type |-> type]
            /\ UNCHANGED <<lCalls, lLastKey>>
    /\ UNCHANGED <<lPhase, lEl, lEvent, lListeners>>

ListenerSpecInit ==
    ListenerInit /\ DebounceIdle /\ ToastInit /\ PairIdle /\ StorageIdle /\ FetchIdle /\ WatchIdle /\ TickerIdle

ListenerNext ==
    \/ ListenerMount /\ ListenerFrame
    \/ ListenerUnmount /\ ListenerFrame
    \/ \E type \in EventTypes : \E key \in Keys :
         ListenerDispatch(type, key) /\ ListenerFrame

ListenerSpec == ListenerSpecInit /\ [][ListenerNext]_allVars

\* ---------------------------------------------------------------- WatchDemo: debounced search
\* last instant at which the search box is still typed into
MaxWatchTime == 3
\* number of timers the watcher may schedule in one run
MaxWatchTimers == 3
\* WatchDemo.vue line 81: setTimeout(..., 500), in units of 250 ms
SearchDelay == 2

nonWatch == <<dbVars, toastVars, pairVars, storageVars, fetchVars, listenerVars, tickerVars>>

WatchFrame == UNCHANGED nonWatch

\* what is typed into the search box
Queries == {"", "v", "vu"}

\* lines 85-88: the cleanup registered by the last callback run: clearTimeout(timer)
CleanupTimers_None(ts, h) == ts
CleanupTimers(ts, h) == ClearTimeout(ts, h)

\* line 137: <input v-model="searchQuery">: an input event writes the ref; every
\* input event is a task of its own, so the job of the previous one has run
WatchInput(v) ==
    /\ ~wStopped
    /\ ~wJob
    /\ wNow <= MaxWatchTime
    /\ wNextHandle < MaxWatchTimers
    /\ v # wQuery
    /\ wQuery' = v
    /\ wJob' = TRUE
    /\ wSince' = wNow
    /\ wLogged' = 0
    /\ wLastOp' = "input"
    /\ UNCHANGED <<wWatchOld, wStopped, wTimers, wCleanup, wNextHandle, wNow, wLog>>

\* the watcher job: the cleanup of the previous run, then the callback (lines 78-89)
WatchFlush ==
    /\ wJob
    /\ wJob' = FALSE
    /\ IF ~wStopped /\ wQuery # wWatchOld
       THEN /\ wTimers' = CleanupTimers(wTimers, wCleanup)
                            \cup {[id |-> wNextHandle + 1, val |-> wQuery,
                                   due |-> wNow + SearchDelay]}
            /\ wCleanup' = wNextHandle + 1
            /\ wNextHandle' = wNextHandle + 1
            /\ wWatchOld' = wQuery
            /\ wLastOp' = "callback"
       ELSE /\ wLastOp' = "flush"
            /\ UNCHANGED <<wTimers, wCleanup, wNextHandle, wWatchOld>>
    /\ UNCHANGED <<wQuery, wStopped, wNow, wLog, wSince, wLogged>>

WatchDue(t) ==
    /\ t \in wTimers
    /\ t.due <= wNow
    /\ \A u \in wTimers : u.due > t.due \/ (u.due = t.due /\ u.id >= t.id)

\* lines 79-81: the timeout callback logs the query captured by its callback run
WatchFire(t) ==
    /\ ~wJob
    /\ WatchDue(t)
    /\ wTimers' = wTimers \ {t}
    /\ wLog' = Append(wLog, t.val)
    /\ wLogged' = wLogged + 1
    /\ wLastOp' = "log"
    /\ UNCHANGED <<wQuery, wWatchOld, wJob, wStopped, wCleanup, wNextHandle, wNow,
                   wSince>>

WatchFireAny == \E t \in wTimers : WatchFire(t)

\* the component is unmounted: its scope stops the watcher, which runs the
\* registered cleanup
WatchStop ==
    /\ ~wStopped
    /\ wStopped' = TRUE
    /\ wTimers' = CleanupTimers(wTimers, wCleanup)
    /\ wCleanup' = 0
    /\ wLastOp' = "stop"
    /\ UNCHANGED <<wQuery, wWatchOld, wJob, wNextHandle, wNow, wLog, wSince, wLogged>>

\* time passes between tasks; a due timeout may run late, never early
WatchTick ==
    /\ ~wJob
    /\ wNow < MaxWatchTime + SearchDelay
    /\ wNow' = wNow + 1
    /\ wLastOp' = "tick"
    /\ UNCHANGED <<wQuery, wWatchOld, wJob, wStopped, wTimers, wCleanup, wNextHandle,
                   wLog, wSince, wLogged>>

WatchSpecInit ==
    WatchIdle /\ DebounceIdle /\ ToastInit /\ PairIdle /\ StorageIdle /\ FetchIdle /\ ListenerIdle /\ TickerIdle

WatchNext ==
    \/ \E v \in Queries : WatchInput(v) /\ WatchFrame
    \/ WatchFlush /\ WatchFrame
    \/ WatchFireAny /\ WatchFrame
    \/ WatchStop /\ WatchFrame
    \/ WatchTick /\ WatchFrame

WatchSpec == WatchSpecInit /\ [][WatchNext]_allVars

\* ---------------------------------------------------------------- LifecycleDemo: ticker
\* the instant after which the clock is no longer followed
MaxTickerTime == 3
\* LifecycleDemo.vue line 77: setInterval(..., 1000), in seconds
TickPeriod == 1

nonTicker == <<dbVars, toastVars, pairVars, storageVars, fetchVars, listenerVars, watchVars>>

TickerFrame == UNCHANGED nonTicker

\* the intervals instance i has started and not cleared
IntervalsOf(ts, i) == {t \in ts : t.owner = i}

\* lines 81-84: if (intervalId !== null) { clearInterval(intervalId); intervalId = null }
ClearedIntervals_Keep(ts, h) == ts
ClearedIntervals(ts, h) == IF h # 0 THEN ClearTimeout(ts, h) ELSE ts

\* lines 74-78: the onMounted hook of instance i
TickerMount(i) ==
    /\ kPhase[i] = "setup"
    /\ kPhase' = [kPhase EXCEPT ![i] = "mounted"]
    /\ kIntervals' = kIntervals \cup {[id |-> kNextHandle + 1, owner |-> i,
                                       due |-> kNow + TickPeriod]}
    /\ kIntervalId' = [kIntervalId EXCEPT ![i] = kNextHandle + 1]
    /\ kNextHandle' = kNextHandle + 1
    /\ kLastOp' = [op |-> "mount", who |-> i]
    /\ UNCHANGED <<kTicker, kNow>>

\* lines 80-85: the onUnmounted hook of instance i
TickerUnmount(i) ==
    /\ kPhase[i] = "mounted"
    /\ kPhase' = [kPhase EXCEPT ![i] = "unmounted"]
    /\ kIntervals' = ClearedIntervals(kIntervals, kIntervalId[i])
    /\ kIntervalId' = [kIntervalId EXCEPT ![i] = 0]
    /\ kLastOp' = [op |-> "unmount", who |-> i]
    /\ UNCHANGED <<kTicker, kNextHandle, kNow>>

\* lines 75-77: the host runs a due interval callback, ticker.value++, and
\* schedules its next run one period later
TickerFire(t) ==
    /\ t \in kIntervals
    /\ t.due <= kNow
    /\ kTicker' = [kTicker EXCEPT ![t.owner] = @ + 1]
    /\ kIntervals' = (kIntervals \ {t})
                       \cup {[id |-> t.id, owner |-> t.owner, due |-> kNow + TickPeriod]}
    /\ kLastOp' = [op |-> "fire", who |-> t.owner]
    /\ UNCHANGED <<kPhase, kIntervalId, kNextHandle, kNow>>

TickerFireAny == \E t \in kIntervals : TickerFire(t)

\* time passes; a due interval callback may run late, never early
TickerTime ==
    /\ kNow < MaxTickerTime
    /\ kNow' = kNow + 1
    /\ kLastOp' = [op |-> "time", who |-> kLastOp.who]
    /\ UNCHANGED <<kPhase, kIntervalId, kTicker, kIntervals, kNextHandle>>

TickerSpecInit ==
    TickerIdle /\ DebounceIdle /\ ToastInit /\ PairIdle /\ StorageIdle /\ FetchIdle /\ ListenerIdle /\ WatchIdle

TickerNext ==
    \/ \E i \in Instances : TickerMount(i) /\ TickerFrame
    \/ \E i \in Instances : TickerUnmount(i) /\ TickerFrame
    \/ TickerFireAny /\ TickerFrame
    \/ TickerTime /\ TickerFrame

TickerSpec == TickerSpecInit /\ [][TickerNext]_allVars

\* ---------------------------------------------------------------- ToastPlugin, useToast
\* number of show() calls in one run
MaxToasts == 3
\* last instant at which show() is still called
MaxToastTime == 3
\* toast.ts line 21: setTimeout(..., 3000), in seconds
ToastTTL == 3

\* everything outside the toast plugin
nonToast == <<dbVars, pairVars, storageVars, fetchVars, listenerVars, watchVars, tickerVars>>

ToastFrame == UNCHANGED nonToast

\* toast.ts lines 10-26: install(app) creates messages and nextId and provides the API
Install ==
    /\ ~tInstalled
    /\ tInstalled' = TRUE
    /\ tMessages' = <<>>
    /\ tNextId' = 0
    /\ tLastOp' = "install"
    /\ UNCHANGED <<tTimers, tNow, tResult, tThrew>>

\* useToast.ts lines 5-7: inject(ToastKey) yields undefined when nothing is
\* provided; the composable then throws
UseToastResult_NoCheck == IF tInstalled THEN "api" ELSE "undefined"
UseToastResult ==
    IF tInstalled THEN "api" ELSE "Error: ToastPlugin not installed"

UseToast ==
    /\ tResult' = UseToastResult
    /\ tThrew' = (tThrew \/ UseToastResult # "api")
    /\ tLastOp' = "useToast"
    /\ UNCHANGED <<tInstalled, tMessages, tNextId, tTimers, tNow>>

\* toast.ts line 17: const id = ++nextId
NewToastId_FromLength == Len(tMessages) + 1
NewToastId == tNextId + 1

\* toast.ts lines 16-22: show(text, type)
Show ==
    /\ tInstalled
    /\ tNextId < MaxToasts
    /\ tNow <= MaxToastTime
    /\ tNextId' = NewToastId
    /\ tMessages' = Append(tMessages, NewToastId)
    /\ tTimers' = tTimers \cup {[id |-> NewToastId, due |-> tNow + ToastTTL]}
    /\ tLastOp' = "show"
    /\ UNCHANGED <<tInstalled, tNow, tResult, tThrew>>

\* toast.ts line 20: messages.value.filter((m) => m.id !== id)
ExpireFilter_Inverted(msgs, id) == SelectSeq(msgs, LAMBDA m : m = id)
ExpireFilter_Clear(msgs, id) == <<>>
ExpireFilter(msgs, id) == SelectSeq(msgs, LAMBDA m : m # id)

\* the host runs due timeouts in order of due time, then of creation
ToastDue(t) ==
    /\ t \in tTimers
    /\ t.due <= tNow
    /\ \A u \in tTimers : u.due > t.due \/ (u.due = t.due /\ u.id >= t.id)

\* toast.ts lines 19-21: the timeout callback of the message with id t.id
Expire(t) ==
    /\ ToastDue(t)
    /\ tTimers' = tTimers \ {t}
    /\ tMessages' = ExpireFilter(tMessages, t.id)
    /\ tLastOp' = "expire"
    /\ UNCHANGED <<tInstalled, tNextId, tNow, tResult, tThrew>>

ExpireAny == \E t \in tTimers : Expire(t)

\* time passes; a due timeout may run late, never early
ToastTick ==
    /\ \/ tNow < MaxToastTime
       \/ \E t \in tTimers : t.due > tNow
    /\ tNow' = tNow + 1
    /\ tLastOp' = "tick"
    /\ UNCHANGED <<tInstalled, tMessages, tNextId, tTimers, tResult, tThrew>>

ToastSpecInit ==
    ToastInit /\ DebounceIdle /\ PairIdle /\ StorageIdle /\ FetchIdle /\ ListenerIdle /\ WatchIdle /\ TickerIdle

ToastNext ==
    \/ Install /\ ToastFrame
    \/ UseToast /\ ToastFrame
    \/ Show /\ ToastFrame
    \/ ExpireAny /\ ToastFrame
    \/ ToastTick /\ ToastFrame

ToastSpec == ToastSpecInit /\ [][ToastNext]_allVars

\* ---------------------------------------------------------------- claims
\* A change of the source reaches useDebounce as a notification: a run of the
\* watch callback. A burst is a maximal run of notifications each less than
\* `delay` after the one before.

\* C1: over a burst of notifications v1..vN the debounced cell is written at
\* most once; until that write it keeps the value it had when the burst began
\* and exactly one timeout for vN is pending; the write sets it to vN and
\* leaves no timeout pending, so a settled burst has written exactly once.
C1_SingleSettle ==
    (phase = "live" /\ burstLen >= 1) =>
        /\ burstMut <= 1
        /\ burstMut = 0 =>
              /\ debounced = burstInit
              /\ \E t \in timers : timers = {t} /\ t.val = watchOld
        /\ burstMut = 1 => (debounced = watchOld /\ timers = {})

C1_Witness ==
    /\ phase = "live" /\ lastOp = "fire"
    /\ burstLen >= 2 /\ burstMut = 1
    /\ burstInit = "a" /\ "ab" \in held /\ debounced = "abc"

\* C2: whenever the debounced cell differs from the source (and no watcher job
\* is waiting), the timeout scheduled `delay` after the last notification is
\* pending and carries the source's value; and once the environment is quiet
\* the debounced cell eventually equals the source.
C2_Liveness ==
    /\ [](  (phase = "live" /\ ~jobQueued /\ debounced # source)
         => \E t \in timers : t.val = source /\ t.due = lastObs + delay)
    /\ ((quiet /\ phase = "live") ~> (debounced = source))

C2_Witness ==
    /\ quiet /\ phase = "live" /\ lastOp = "fire"
    /\ debounced = source /\ debounced # burstInit

\* C3: at most one timeout is scheduled at any time, and it is the one the
\* closure variable `timer` names: an older, preempted timeout is never left
\* to fire.
C3_OnePendingTimer ==
    /\ Cardinality(timers) <= 1
    /\ \A t \in timers : t.id = timer

C3_Witness ==
    /\ lastOp = "notify" /\ burstLen >= 2
    /\ Cardinality(timers) = 1 /\ timer >= 2

\* C4: once the watcher is stopped no timeout fires and the debounced cell
\* keeps its value.
C4_NoMutationAfterDispose ==
    [][phase = "disposed" => (debounced' = debounced /\ timers' = timers)]_vars

\* C5: right after useDebounce returns, the debounced cell equals the source,
\* no timeout is scheduled and no watcher job is waiting.
C5_InitialPassthrough ==
    lastOp = "create" =>
        (debounced = source /\ timers = {} /\ timer = 0 /\ ~jobQueued)

C5_Witness == lastOp = "create" /\ debounced = "abc" /\ delay = MaxDelay

\* C6: the debounced cell always holds a value the source has held at or
\* since construction.
C6_NeverSynthesized == phase # "new" => debounced \in held

C6_Witness ==
    /\ lastOp = "fire" /\ debounced # burstInit
    /\ Cardinality(held) >= 2 /\ debounced # source

\* C7: a timeout callback never writes the debounced cell less than `delay`
\* after the most recent notification.
C7_QuietPeriod == lastOp = "fire" => now - lastObs >= delay

C7_Witness ==
    /\ lastOp = "fire" /\ burstLen >= 2
    /\ delay = MaxDelay /\ now = lastObs + delay

\* C8: with delay 0 neither the write of the source nor the watcher job that
\* follows it changes the debounced cell; the job leaves a timeout that is due
\* at once, and when the host has run it the debounced cell equals the source.
C8_ZeroDelayAsync ==
    /\ [][(delay = 0 /\ lastOp' \in {"set", "flush", "notify"})
            => debounced' = debounced]_vars
    /\ []((delay = 0 /\ lastOp = "notify")
            => \E t \in timers : t.val = source /\ t.due = now)
    /\ []((delay = 0 /\ phase = "live" /\ lastOp = "fire") => debounced = source)

C8_Witness ==
    /\ delay = 0 /\ phase = "live" /\ lastOp = "fire"
    /\ debounced = "abc" /\ burstInit = "a"

\* C9: a notification whose value equals the settled (debounced) value is
\* handled like any other: afterwards the only scheduled timeout is a new one
\* for that value, due `delay` later.
C9_NoValueShortCircuit ==
    (lastOp = "notify" /\ source = debounced) =>
        timers = {[id |-> timer, val |-> source, due |-> now + delay]}

C9_Witness ==
    /\ lastOp = "notify" /\ source = debounced
    /\ burstLen >= 2 /\ timer >= 2

C11_InvalidSourceRejected == ~srcLive => (phase = "new" /\ debounced = Undef)

\* The timeouts pipeline q has scheduled.
TimersOf(ts, q) == {t \in ts : t.owner = q}

\* C12: a step of one pipeline (a write of its source, its watcher job, its
\* timeout callback) leaves the other pipeline's debounced cell, scheduled
\* timeouts, timer handle and watcher as they were.
C12_NoInterference ==
    [][\A p \in Pipelines : \A q \in Pipelines \ {p} :
         (pLastOp'.who = p /\ pLastOp'.op \in {"set", "flush", "notify", "fire"})
           => /\ pDebounced'[q] = pDebounced[q]
              /\ TimersOf(pTimers', q) = TimersOf(pTimers, q)
              /\ pTimer'[q] = pTimer[q]
              /\ pWatchOld'[q] = pWatchOld[q]
              /\ pJob'[q] = pJob[q]]_pairVars

C12_Witness ==
    /\ pLastOp = [op |-> "notify", who |-> "A"]
    /\ pTimer["B"] > 0 /\ pTimer["A"] > pTimer["B"]
    /\ TimersOf(pTimers, "B") # {} /\ TimersOf(pTimers, "A") # {}

\* C13: no step of the pipeline (construction, watcher job, timeout callback,
\* teardown) changes source.value.
C13_SourceNeverWritten ==
    [][lastOp' \in {"create", "flush", "notify", "fire", "dispose"}
         => source' = source]_vars

C13_Witness ==
    /\ lastOp = "fire" /\ phase = "disposed"
    /\ debounced = "ab" /\ source = "abc"

\* The ids of the messages in the list.
ToastIds == {tMessages[i] : i \in 1..Len(tMessages)}

\* C14: a message is in the list exactly while its own timeout is pending:
\* it is removed when that timeout runs and not before, so with no timeout
\* pending the list is empty.
C14_AutoDismiss ==
    /\ ToastIds = {t.id : t \in tTimers}
    /\ tTimers = {} => tMessages = <<>>

C14_Witness ==
    /\ tLastOp = "expire" /\ tNextId >= 2
    /\ tMessages = <<>> /\ tTimers = {}

\* C15: once the watcher has persisted v, the entry under the key is the JSON text
\* of v (a number as its digits, a string between quotes, null and the booleans
\* as their literals), and a reload then starts with data = v, whatever initial
\* value it is given.
C15_RoundTrip ==
    /\ sLastOp = "persist" =>
          /\ sStore = [has |-> TRUE, text |-> JSONStringify(sData)]
          /\ sData = Num(0) => sStore.text = <<"0">>
          /\ sData = Num(10 + MaxNum) => Len(sStore.text) = 2 /\ sStore.text[1] = "1"
          /\ sData = Str(<<>>) => sStore.text = <<"\"", "\"">>
          /\ sData = Str(<<"1">>) => sStore.text = <<"\"", "1", "\"">>
          /\ sData = Null => sStore.text = <<"n", "u", "l", "l">>
          /\ sData = Bool(FALSE) => sStore.text = <<"f", "a", "l", "s", "e">>
    /\ (sLastOp = "reload" /\ sSaved # NoValue) => sData = sSaved

C15_Witness ==
    /\ sLastOp = "reload"
    /\ sSaved = Str(<<"1">>)
    /\ sData = Str(<<"1">>)
    /\ sInitial = Num(1)

FailureOps == {"http", "network", "badjson"}

C19_LoadingWhilePending == fInflight # {} => fLoading

\* C20: a refresh that fails (non-ok status, rejected fetch, rejected body) leaves
\* data as it was, null or the last successful body, and sets error and clears
\* loading.
C20_FailureKeepsData ==
    [][fLastOp'.op \in FailureOps =>
         /\ fData' = fData
         /\ fData' = fLastBody'
         /\ fLastBody' = fLastBody
         /\ fError' # "null" /\ ~fLoading']_fetchVars

C20_Witness ==
    /\ fLastOp.op = "network"
    /\ fData = "b2"
    /\ fError = NetworkMessage
    /\ fInflight = {}

C18_UseToast ==
    /\ tResult # "undefined"
    /\ tLastOp = "useToast" =>
          /\ tInstalled => tResult = "api"
          /\ ~tInstalled => tResult = "Error: ToastPlugin not installed"

C18_Witness == tLastOp = "useToast" /\ tResult = "api" /\ tThrew

\* C21: once remove() has been called and the watcher jobs pending after it have
\* run, the storage has no entry under the key and data equals initialValue.
C21_RemoveClears ==
    /\ []((sLastOp = "remove" /\ ~sJob) => (sStore = Absent /\ sData = sInitial))
    /\ [][(sLastOp = "remove" /\ sLastOp' = "persist")
            => (sStore' = Absent /\ sData' = sInitial)]_storageVars

\* C22: every show() assigns the id following the last one assigned, the first
\* being 1, so the ids in `messages` are pairwise different, in increasing order,
\* and none exceeds the last id assigned.
C22_UniqueIds ==
    /\ [](\A i \in 1..Len(tMessages) : \A j \in 1..Len(tMessages) :
            i < j => tMessages[i] < tMessages[j])
    /\ [](\A i \in 1..Len(tMessages) : tMessages[i] >= 1 /\ tMessages[i] <= tNextId)
    /\ [][tLastOp' = "show" =>
            /\ tNextId' = tNextId + 1
            /\ Len(tMessages') = Len(tMessages) + 1
            /\ tMessages'[Len(tMessages')] = tNextId'
            /\ \A i \in 1..Len(tMessages) : tMessages[i] < tNextId']_toastVars

C22_Witness ==
    /\ tLastOp = "show"
    /\ tNextId = 3
    /\ tMessages = <<3>>

\* the list without its k-th entry
WithoutEntry(msgs, k) == SubSeq(msgs, 1, k - 1) \o SubSeq(msgs, k + 1, Len(msgs))

\* C23: the timeout of the message with id i removes the entry with id i from
\* the list and nothing else: the other entries stay, in the same order.
C23_ExpireExactlyOne ==
    [][tLastOp' = "expire" =>
         \E t \in tTimers :
           /\ tTimers' = tTimers \ {t}
           /\ \E k \in 1..Len(tMessages) :
                /\ tMessages[k] = t.id
                /\ tMessages' = WithoutEntry(tMessages, k)]_toastVars

C23_Witness ==
    /\ tLastOp = "expire"
    /\ tMessages = <<2, 3>>
    /\ tNextId = 3

\* C24: a timeout that fires assigns the value captured when it was scheduled to
\* the debounced cell and leaves the timer handle "none" (0); the handle is held
\* exactly while a timeout of the pipeline is scheduled.
C24_HandleLifetime ==
    /\ [][lastOp' = "fire" =>
            \E t \in timers : /\ timers' = timers \ {t}
                              /\ debounced' = t.val
                              /\ timer' = 0]_vars
    /\ [](timer # 0 <=> timers # {})

\* C25: a line is logged only for the query the search box holds, once it has
\* not been written for 500 ms, at most once per such query, and never after the
\* watcher has been stopped; at most one timeout of the watcher is scheduled.
C25_DebouncedSearch ==
    /\ [][wLastOp' = "log" =>
            /\ ~wStopped
            /\ wLog' = Append(wLog, wQuery)
            /\ wNow >= wSince + SearchDelay]_watchVars
    /\ [](wLogged <= 1)
    /\ [][wStopped => wLog' = wLog]_watchVars
    /\ [](Cardinality(wTimers) <= 1)
    /\ [](wStopped => wTimers = {})

C25_Witness ==
    /\ wStopped
    /\ wLastOp = "tick"
    /\ wLog = <<"v">>
    /\ wQuery = "vu"
    /\ wNextHandle = 2
    /\ wNow >= wSince + SearchDelay

\* C26: an instance has an active interval exactly while it is mounted, and at
\* most one; intervalId names it, and is null before mount and after unmount;
\* ticker changes only by one step up while the instance is mounted, and never
\* again once it is unmounted.
C26_TickerLifecycle ==
    /\ [](\A i \in Instances :
            /\ Cardinality(IntervalsOf(kIntervals, i)) <= 1
            /\ (IntervalsOf(kIntervals, i) # {} <=> kPhase[i] = "mounted")
            /\ \A t \in IntervalsOf(kIntervals, i) : t.id = kIntervalId[i]
            /\ kPhase[i] # "mounted" => kIntervalId[i] = 0)
    /\ [][\A i \in Instances :
            /\ kTicker'[i] # kTicker[i] =>
                 (kPhase[i] = "mounted" /\ kTicker'[i] = kTicker[i] + 1)
            /\ kPhase[i] = "unmounted" =>
                 /\ kTicker'[i] = kTicker[i]
                 /\ kIntervalId'[i] = 0
                 /\ kPhase'[i] = "unmounted"]_tickerVars

C26_Witness ==
    /\ kPhase[1] = "unmounted" /\ kTicker[1] = 1
    /\ kPhase[2] = "mounted" /\ kTicker[2] >= 2
    /\ kLastOp = [op |-> "fire", who |-> 2]
    /\ kNow = MaxTickerTime

====
